---- MODULE Spec2Model ----
(***************************************************************************)
(* A model of scrape_schema/base.py: the schema construction engine        *)
(* (BaseSchema.__init__, parse, parse_many), the field hooks of BaseField, *)
(* the type resolver (_get_type) and the conversions dict() / __bool__.    *)
(***************************************************************************)
EXTENDS Integers, Sequences, FiniteSets, TLC

(***************************************************************************)
(* Bounds of the model.                                                    *)
(***************************************************************************)
\* longest class body (entries of cls.__dict__) of a schema built by parse
MaxFields == 3
\* longest class body of a schema used with parse_many
ManyFields == 2
\* longest batch handed to parse_many
MaxItems == 2
\* most attributes of an instance handed to dict() and bool()
MaxAttrs == 2
\* longest list or mapping held by such an instance
MaxListLen == 2
\* deepest nesting of an annotation (list[Optional[int]] has depth 2)
MaxNest == 2
\* most fields of a class whose field objects are tracked
MaxCopyFields == 2
\* most in-place mutations of one object
MaxMutations == 2
\* most objects allocated by hooks
MaxRebinds == 1

(***************************************************************************)
(* Python values.  A value is a record [t, n]: its type name and a number  *)
(* (the integer, the truth value as 0/1, or the length of the string).     *)
(***************************************************************************)
PyNone == [t |-> "NoneType", n |-> 0]
PyFalse == [t |-> "bool", n |-> 0]
PyInt0 == [t |-> "int", n |-> 0]

Values == {PyNone, PyFalse}

IsNumber(x) == x.t \in {"bool", "int"}

\* Python's ==: bool is a subclass of int (False == 0), None equals only None.
PyEq(x, y) ==
    IF IsNumber(x) /\ IsNumber(y) THEN x.n = y.n ELSE x.t = y.t /\ x.n = y.n

(***************************************************************************)
(* Names are strings, kept as sequences of characters.                     *)
(***************************************************************************)
Letters == <<"a", "b", "c", "d", "e", "f">>
Under2 == <<"_", "_">>

StartsWith(s, p) == Len(s) >= Len(p) /\ SubSeq(s, 1, Len(p)) = p
EndsWith(s, p) == Len(s) >= Len(p) /\ SubSeq(s, Len(s) - Len(p) + 1, Len(s)) = p

\* BaseSchema._is_dunder
IsDunder(name) == StartsWith(name, Under2) /\ EndsWith(name, Under2)

(***************************************************************************)
(* Markup and backend documents.  A markup is a string; a backend is a     *)
(* type called as cls_type(markup, **params).  BeautifulSoup documents are *)
(* always truthy; list(markup) is the list of its characters, falsy when   *)
(* the markup is empty.                                                    *)
(***************************************************************************)
Markups == {<<>>, <<"p">>}
NoParser == "None"
NoDoc == [kind |-> "None", src |-> <<>>]

RawDoc(markup) == [kind |-> "str", src |-> markup]
BuildDoc(backend, markup) == [kind |-> backend, src |-> markup]

\* bool(document)
DocTruthy(doc) ==
    CASE doc.kind = "None" -> FALSE
      [] doc.kind = "BeautifulSoup" -> TRUE
      [] OTHER -> Len(doc.src) > 0

\* dict.get
DictGet(d, k) == IF k \in DOMAIN d THEN d[k] ELSE NoDoc

(***************************************************************************)
(* Class bodies: cls.__dict__ as the ordered list of its entries.          *)
(***************************************************************************)
PlainName(i) == <<Letters[i]>>
DunderName(i) == Under2 \o <<Letters[i]>> \o Under2
TrailName(i) == <<Letters[i]>> \o Under2

Field(name, default, parser) ==
    [name |-> name, isField |-> TRUE, default |-> default, parser |-> parser]
Other(name) ==
    [name |-> name, isField |-> FALSE, default |-> PyNone, parser |-> NoParser]

Templates == {"plain", "zero", "soup", "list", "dunder", "trail", "other"}
ManyTemplates == {"plain", "zero"}

Entry(i, tpl) ==
    CASE tpl = "plain" -> Field(PlainName(i), PyNone, NoParser)
      [] tpl = "zero" -> Field(PlainName(i), PyInt0, NoParser)
      [] tpl = "soup" -> Field(PlainName(i), PyNone, "BeautifulSoup")
      [] tpl = "list" -> Field(PlainName(i), PyNone, "list")
      [] tpl = "dunder" -> Field(DunderName(i), PyNone, NoParser)
      [] tpl = "trail" -> Field(TrailName(i), PyNone, NoParser)
      [] OTHER -> Other(PlainName(i))

Bodies(tpls, maxLen) ==
    UNION {{[i \in 1..n |-> Entry(i, f[i])] : f \in [1..n -> tpls]} : n \in 0..maxLen}

ParserConfigs == {{}, {"BeautifulSoup"}, {"BeautifulSoup", "list"}}
Thresholds == {-1, 0, 1}

Classes(tpls, maxLen, configs) ==
    [body : Bodies(tpls, maxLen), parsers : configs, maxFails : Thresholds]

BatchesUpTo(n) == UNION {[1..k -> Markups] : k \in 0..n}

RECURSIVE SelectSeq2(_, _)
\* the sub-sequence of the entries that are fields, in order
SelectSeq2(s, i) ==
    IF i > Len(s) THEN <<>>
    ELSE (IF ~IsDunder(s[i].name) /\ s[i].isField THEN <<s[i]>> ELSE <<>>)
         \o SelectSeq2(s, i + 1)

\* a scan of the class body that starts one entry too late
GetFieldsSkipFirst(c) == SelectSeq2(c.body, 2)

\* BaseSchema._get_fields
GetFields(c) == SelectSeq2(c.body, 1)

\* copy.deepcopy of the field mapping; the defaults of this specification are
\* immutable values (None, numbers), which a copy shares without effect
DeepCopyFields(fields) == [i \in 1..Len(fields) |-> fields[i]]

(***************************************************************************)
(* State.                                                                  *)
(***************************************************************************)
VARIABLES
    entry,        \* "parse" or "parse_many": the classmethod that was called
    cls,          \* the schema class: body, __MARKUP_PARSERS__, __MAX_FAILS_COUNTER__
    batch,        \* the markups handed in
    idx,          \* the item of the batch under construction
    pc,           \* "call", "loop", "returned", "raised"
    initMarkups,  \* _init_markups of the running __init__
    fieldsCopy,   \* self.__fields__
    fi,           \* position of the for loop in self.__fields__
    fails,        \* _fails
    attrs,        \* self.__dict__ without __fields__: ordered [k, v] pairs
    calls,        \* the field calls made by the running __init__: [name, doc, out]
    raised,       \* the error that ended the call, or "none"
    nerr,         \* the number of errors raised by the running __init__
    produced,     \* the instances the list comprehension has produced
    result,       \* what the classmethod returned
    hookIn,       \* a call of a BaseField hook: the schema flag, the field, the value
    hookOut,      \* what the hook call did: [op, err, ret]
    dInst,        \* the instance dict() or bool() is called on
    dOut,         \* the call made and its result: [op, val]
    tAnn,         \* the annotation of the attribute _get_type is asked about
    tOut,         \* the outcome of _get_type: [op, err, ty, warned]
    heap,         \* the mutable objects fields refer to: contents by address
    fieldObjs,    \* the field objects: the addresses their attributes hold
    copies,       \* per construction, its self.__fields__: field objects in order
    touched       \* the constructions whose hooks have mutated something

engineVars == <<entry, cls, batch, idx, pc, initMarkups, fieldsCopy, fi, fails, attrs,
                calls, raised, nerr, produced, result>>
hookVars == <<hookIn, hookOut>>
dictVars == <<dInst, dOut>>
typeVars == <<tAnn, tOut>>
copyVars == <<heap, fieldObjs, copies, touched>>

vars == <<engineVars, hookVars, dictVars, typeVars, copyVars>>

Instance(as, markup) == [attrs |-> as, src |-> markup]

NoCall == [op |-> "none", err |-> "none", ret |-> PyNone]

\* no hook call is under way
HooksIdle ==
    /\ hookIn = [validate |-> FALSE, validator |-> "None", filter_ |-> "None",
                 factory |-> "None", value |-> PyNone]
    /\ hookOut = NoCall

NoValue == [t |-> "none", n |-> 0, items |-> <<>>]

\* no dict() or bool() call is under way
DictIdle ==
    /\ dInst = NoValue
    /\ dOut = [op |-> "none", val |-> NoValue]

NoType == [kind |-> "absent", name |-> "", args |-> <<>>]
NoResult == [op |-> "none", err |-> "none", ty |-> NoType, warned |-> FALSE]

\* no _get_type call is under way
TypeIdle ==
    /\ tAnn = NoType
    /\ tOut = NoResult

\* no field objects are tracked
CopyIdle ==
    /\ heap = <<>>
    /\ fieldObjs = <<>>
    /\ copies = <<>>
    /\ touched = {}

InitCommon ==
    /\ HooksIdle
    /\ DictIdle
    /\ TypeIdle
    /\ CopyIdle
    /\ idx = 1
    /\ pc = "call"
    /\ initMarkups = <<>>
    /\ fieldsCopy = <<>>
    /\ fi = 1
    /\ fails = 0
    /\ attrs = <<>>
    /\ calls = <<>>
    /\ raised = "none"
    /\ nerr = 0
    /\ produced = <<>>
    /\ result = <<>>

\* cls.parse(markup)
Init ==
    /\ entry = "parse"
    /\ cls \in Classes(Templates, MaxFields, ParserConfigs)
    /\ batch \in [1..1 -> Markups]
    /\ InitCommon

\* cls.parse_many(markups)
InitMany ==
    /\ entry = "parse_many"
    /\ cls \in Classes(ManyTemplates, ManyFields, {{}})
    /\ batch \in BatchesUpTo(MaxItems)
    /\ InitCommon

(***************************************************************************)
(* BaseSchema.__init__, lines 155-162: the backend documents, the snapshot *)
(* of the fields, the failure counter.                                     *)
(***************************************************************************)
\* a counter that is kept from the previous construction
CarriedFails == fails

\* line 162
FreshFails == 0

Begin ==
    /\ pc = "call"
    /\ idx <= Len(batch)
    /\ initMarkups' = [p \in cls.parsers |-> BuildDoc(p, batch[idx])]
    /\ fieldsCopy' = DeepCopyFields(GetFields(cls))
    /\ fails' = FreshFails
    /\ fi' = 1
    /\ attrs' = <<>>
    /\ calls' = <<>>
    /\ nerr' = 0
    /\ pc' = "loop"
    /\ UNCHANGED <<entry, cls, batch, idx, raised, produced, result>>
    /\ UNCHANGED <<hookVars, dictVars, typeVars, copyVars>>

(***************************************************************************)
(* One iteration of the for loop, lines 163-188.                           *)
(***************************************************************************)
\* lines 164-174: the document the field is called with; NoDoc: TypeError
SelectDoc(field, markup, docs) ==
    IF field.parser = NoParser THEN RawDoc(markup)
    ELSE IF DocTruthy(DictGet(docs, field.parser)) THEN DictGet(docs, field.parser)
    ELSE NoDoc

\* line 177; hasattr(field, "default") holds of every field, since
\* BaseField.__init__ sets the attribute
CountsAsFail(maxFails, field, value) ==
    maxFails >= 0 /\ PyEq(value, field.default)

\* a counter compared with >= instead of >
TooManyFailsOffByOne(n, maxFails) == n >= maxFails

\* line 185
TooManyFails(n, maxFails) == n > maxFails

\* what field(self, name, doc) does: returns a value or raises
Outcomes == Values \cup {[t |-> "raise", n |-> 0]}

\* setattr placed before the threshold check
StepOutcomeAssignFirst(field, out, n, maxFails) ==
    IF out.t = "raise"
    THEN [err |-> "ValidationError", fails |-> n, set |-> FALSE]
    ELSE LET counted == maxFails >= 0 /\ PyEq(out, field.default)
             m == IF counted THEN n + 1 ELSE n
         IN IF counted /\ m > maxFails
            THEN [err |-> "ParseFailAttemptsError", fails |-> m, set |-> TRUE]
            ELSE [err |-> "none", fails |-> m, set |-> TRUE]

\* lines 175-188 for one outcome of the field call: the error raised (or
\* "none"), the failure counter, and whether setattr is reached
StepOutcome(field, out, n, maxFails) ==
    IF out.t = "raise"
    THEN [err |-> "ValidationError", fails |-> n, set |-> FALSE]
    ELSE LET counted == CountsAsFail(maxFails, field, out)
             m == IF counted THEN n + 1 ELSE n
         IN IF counted /\ TooManyFails(m, maxFails)
            THEN [err |-> "ParseFailAttemptsError", fails |-> m, set |-> FALSE]
            ELSE [err |-> "none", fails |-> m, set |-> TRUE]

Raise(err) ==
    /\ pc' = "raised"
    /\ raised' = err
    /\ nerr' = nerr + 1

FieldStep ==
    /\ pc = "loop"
    /\ fi <= Len(fieldsCopy)
    /\ LET field == fieldsCopy[fi]
           doc == SelectDoc(field, batch[idx], initMarkups)
       IN IF doc = NoDoc
          THEN /\ Raise("TypeError")
               /\ UNCHANGED <<fi, fails, attrs, calls>>
          ELSE \E out \in Outcomes :
                 LET r == StepOutcome(field, out, fails, cls.maxFails)
                 IN /\ calls' = Append(calls, [name |-> field.name, doc |-> doc, out |-> out])
                    /\ fails' = r.fails
                    /\ attrs' = IF r.set
                                THEN Append(attrs, [k |-> field.name, v |-> out])
                                ELSE attrs
                    /\ IF r.err = "none"
                       THEN /\ fi' = fi + 1
                            /\ UNCHANGED <<pc, raised, nerr>>
                       ELSE /\ Raise(r.err)
                            /\ UNCHANGED fi
    /\ UNCHANGED <<entry, cls, batch, idx, initMarkups, fieldsCopy, produced, result>>
    /\ UNCHANGED <<hookVars, dictVars, typeVars, copyVars>>

\* parse: return cls(markup)
ParseReturn ==
    /\ entry = "parse"
    /\ pc = "loop"
    /\ fi > Len(fieldsCopy)
    /\ result' = <<Instance(attrs, batch[idx])>>
    /\ pc' = "returned"
    /\ UNCHANGED <<entry, cls, batch, idx, initMarkups, fieldsCopy, fi, fails, attrs,
                   calls, raised, nerr, produced>>
    /\ UNCHANGED <<hookVars, dictVars, typeVars, copyVars>>

\* parse_many: one more element of [cls(markup) for markup in markups]
ManyAppend ==
    /\ entry = "parse_many"
    /\ pc = "loop"
    /\ fi > Len(fieldsCopy)
    /\ produced' = Append(produced, Instance(attrs, batch[idx]))
    /\ idx' = idx + 1
    /\ pc' = "call"
    /\ UNCHANGED <<entry, cls, batch, initMarkups, fieldsCopy, fi, fails, attrs,
                   calls, raised, nerr, result>>
    /\ UNCHANGED <<hookVars, dictVars, typeVars, copyVars>>

\* parse_many: the comprehension is exhausted, the list is returned
ManyReturn ==
    /\ entry = "parse_many"
    /\ pc = "call"
    /\ idx > Len(batch)
    /\ result' = produced
    /\ pc' = "returned"
    /\ UNCHANGED <<entry, cls, batch, idx, initMarkups, fieldsCopy, fi, fails, attrs,
                   calls, raised, nerr, produced>>
    /\ UNCHANGED <<hookVars, dictVars, typeVars, copyVars>>

Next == Begin \/ FieldStep \/ ParseReturn
Spec == Init /\ [][Next]_vars

NextMany == Begin \/ FieldStep \/ ManyAppend \/ ManyReturn
SpecMany == InitMany /\ [][NextMany]_vars

(***************************************************************************)
(* Properties of the construction engine.                                  *)
(***************************************************************************)
\* the declaration of a name in the class body
DeclOf(name) == CHOOSE e \in {cls.body[i] : i \in 1..Len(cls.body)} : e.name = name

\* the field calls of the running construction that returned the field's default
DefaultValued ==
    {i \in 1..Len(calls) :
        calls[i].out.t # "raise" /\ PyEq(calls[i].out, DeclOf(calls[i].name).default)}

\* the attribute `name` holds the value the field call for `name` returned
HoldsResolved(as, name) ==
    \E j \in 1..Len(as) : \E i \in 1..Len(calls) :
        as[j].k = name /\ calls[i].name = name /\ calls[i].out = as[j].v

\* C1: ParseFailAttemptsError is raised if and only if the threshold is >= 0 and
\* the number of fields whose resolved value equals the field's default is
\* greater than the threshold.
C1_FailsIffOverThreshold ==
    (raised = "ParseFailAttemptsError")
        <=> (cls.maxFails >= 0 /\ Cardinality(DefaultValued) > cls.maxFails)

C1_Witness ==
    /\ raised = "ParseFailAttemptsError"
    /\ cls.maxFails = 1
    /\ Cardinality(DefaultValued) = 2
    /\ \E i \in DefaultValued : calls[i].out # DeclOf(calls[i].name).default

\* C2 as stated: a returned instance has an attribute holding the resolved
\* value for every field declared on the class, and an aborted construction
\* returns no instance.
C2_EveryDeclaredField ==
    /\ pc = "returned" =>
          /\ Len(result) = 1
          /\ \A i \in 1..Len(cls.body) :
                cls.body[i].isField => HoldsResolved(result[1].attrs, cls.body[i].name)
    /\ pc = "raised" => result = <<>>

\* C2 amended: a returned instance has an attribute holding the resolved value
\* for every field of the class body whose name is not a dunder name (and for
\* nothing else), and an aborted construction returns no instance.
C2_EveryNonDunderField ==
    /\ pc = "returned" =>
          /\ Len(result) = 1
          /\ \A i \in 1..Len(cls.body) :
                (cls.body[i].isField /\ ~IsDunder(cls.body[i].name))
                    <=> HoldsResolved(result[1].attrs, cls.body[i].name)
    /\ pc = "raised" => result = <<>>

C2_Witness ==
    /\ pc = "returned"
    /\ Len(result[1].attrs) = 2
    /\ \E i \in 1..Len(cls.body) : cls.body[i].isField /\ IsDunder(cls.body[i].name)
    /\ \E i \in 1..Len(cls.body) : cls.body[i].name = TrailName(i)

\* C4: a field with no required backend is called with the raw markup, a field
\* whose backend is configured in __MARKUP_PARSERS__ is called with the document
\* built for it, and TypeError is raised exactly when the backend of the field
\* is not configured.
C4_BackendSelection ==
    /\ \A i \in 1..Len(calls) :
          LET f == DeclOf(calls[i].name)
          IN IF f.parser = NoParser
             THEN calls[i].doc = RawDoc(batch[idx])
             ELSE /\ f.parser \in cls.parsers
                  /\ calls[i].doc = BuildDoc(f.parser, batch[idx])
    /\ raised = "TypeError" =>
          /\ fieldsCopy[fi].parser # NoParser
          /\ fieldsCopy[fi].parser \notin cls.parsers

\* C10: fields are resolved one at a time in declaration order; the first error
\* ends the construction, the field whose step raised is not assigned, no later
\* field is resolved or assigned, and at most one error is raised.
C10_FirstErrorEnds ==
    LET declared == GetFields(cls)
    IN /\ Len(calls) <= Len(declared)
       /\ \A i \in 1..Len(calls) : calls[i].name = declared[i].name
       /\ \A i \in 1..Len(attrs) : attrs[i].k = declared[i].name
       /\ nerr <= 1
       /\ raised = "none" => nerr = 0 /\ Len(attrs) = Len(calls)
       /\ raised # "none" =>
             /\ pc = "raised"
             /\ nerr = 1
             /\ Len(attrs) = fi - 1
             /\ Len(calls) \in {fi - 1, fi}
             /\ result = <<>>

C10_Witness ==
    /\ raised = "ParseFailAttemptsError"
    /\ fi = 2
    /\ Len(fieldsCopy) = 3
    /\ Len(calls) = 2
    /\ Len(attrs) = 1

\* C8: parse_many constructs one instance per input, in input order, each with
\* a failure counter of its own; an error at item i ends the call with nothing
\* returned, items after i are not constructed, and the instances produced
\* before i stay as they were.
C8_ParseMany ==
    /\ Len(produced) = idx - 1
    /\ \A i \in 1..Len(produced) :
          /\ produced[i].src = batch[i]
          /\ Len(produced[i].attrs) = Len(GetFields(cls))
    /\ fails = (IF cls.maxFails >= 0 THEN Cardinality(DefaultValued) ELSE 0)
    /\ pc = "returned" => result = produced /\ Len(result) = Len(batch)
    /\ pc # "returned" => result = <<>>
    /\ pc = "raised" => idx <= Len(batch) /\ nerr = 1

C8_Witness ==
    /\ pc = "raised"
    /\ raised = "ParseFailAttemptsError"
    /\ idx = 2
    /\ Len(produced) = 1
    /\ batch[1] # batch[2]
    /\ cls.maxFails = 1
    /\ fails = 2
    /\ \E j \in 1..Len(produced[1].attrs) :
          PyEq(produced[1].attrs[j].v, DeclOf(produced[1].attrs[j].k).default)

(***************************************************************************)
(* The hooks of BaseField: _validate, _filter, _factory, _raise_validator. *)
(* A hook is None or a callable; a callable returns any value.             *)
(***************************************************************************)
PyTrue == [t |-> "bool", n |-> 1]
PyBool(b) == IF b THEN PyTrue ELSE PyFalse
PyInt(k) == [t |-> "int", n |-> k]
PyStr(len) == [t |-> "str", n |-> len]

HookValues == {PyNone, PyFalse, PyTrue, PyInt(0), PyInt(5), PyStr(0), PyStr(4)}

\* bool(value)
Truthy(v) == v.t # "NoneType" /\ v.n # 0

Callables == {"None", "always_false", "always_true", "bool", "identity"}

\* bool(hook): None is falsy, a function is truthy
HasHook(fn) == fn # "None"

\* hook(value)
Apply(fn, v) ==
    CASE fn = "always_false" -> PyFalse
      [] fn = "always_true" -> PyTrue
      [] fn = "bool" -> PyBool(Truthy(v))
      [] OTHER -> v

\* BaseField._validate
Validate(field, v) == ~HasHook(field.validator) \/ Truthy(Apply(field.validator, v))

\* BaseField._filter
Filter(field, v) == ~HasHook(field.filter_) \/ Truthy(Apply(field.filter_, v))

\* BaseField._factory
Factory(field, v) == IF HasHook(field.factory) THEN Apply(field.factory, v) ELSE v

\* a check that forgets the schema's __VALIDATE__ flag
RaiseValidatorIgnoresFlag(validate, field, v) ==
    IF ~Validate(field, v) THEN "ValidationError" ELSE "none"

\* BaseField._raise_validator: the error raised, or "none"
RaiseValidator(validate, field, v) ==
    IF validate /\ ~Validate(field, v) THEN "ValidationError" ELSE "none"

\* the engine is not running
EngineIdle ==
    /\ entry = "none"
    /\ cls = [body |-> <<>>, parsers |-> {}, maxFails |-> -1]
    /\ batch = <<>>
    /\ idx = 1
    /\ pc = "idle"
    /\ initMarkups = <<>>
    /\ fieldsCopy = <<>>
    /\ fi = 1
    /\ fails = 0
    /\ attrs = <<>>
    /\ calls = <<>>
    /\ raised = "none"
    /\ nerr = 0
    /\ produced = <<>>
    /\ result = <<>>

InitHooks ==
    /\ EngineIdle
    /\ DictIdle
    /\ TypeIdle
    /\ CopyIdle
    /\ hookIn \in [validate : BOOLEAN, validator : Callables, filter_ : Callables,
                   factory : Callables, value : HookValues]
    /\ hookOut = NoCall

HookField == [validator |-> hookIn.validator, filter_ |-> hookIn.filter_,
              factory |-> hookIn.factory]

HookCall(op, err, ret) ==
    /\ hookOut = NoCall
    /\ hookOut' = [op |-> op, err |-> err, ret |-> ret]
    /\ UNCHANGED <<hookIn, engineVars, dictVars, typeVars, copyVars>>

CallValidate == HookCall("_validate", "none", PyBool(Validate(HookField, hookIn.value)))

CallFilter == HookCall("_filter", "none", PyBool(Filter(HookField, hookIn.value)))

CallFactory == HookCall("_factory", "none", Factory(HookField, hookIn.value))

CallRaiseValidator ==
    HookCall("_raise_validator",
             RaiseValidator(hookIn.validate, HookField, hookIn.value), PyNone)

NextHooks == CallValidate \/ CallFilter \/ CallFactory \/ CallRaiseValidator
SpecHooks == InitHooks /\ [][NextHooks]_vars

Item(k, v) == [k |-> k, v |-> v]
DScalar(n) == [t |-> "int", n |-> n, items |-> <<>>]
DBool(b) == [t |-> "bool", n |-> IF b THEN 1 ELSE 0, items |-> <<>>]
DList(elems) ==
    [t |-> "list", n |-> 0, items |-> [i \in 1..Len(elems) |-> Item(<<>>, elems[i])]]
DMap(items) == [t |-> "dict", n |-> 0, items |-> items]

FieldsKey == Under2 \o <<"f", "i", "e", "l", "d", "s">> \o Under2
KeyAt(i) == <<Letters[i]>>
Keyed(vs) == [i \in 1..Len(vs) |-> Item(KeyAt(i), vs[i])]

\* an instance as __init__ leaves it: __fields__ (line 160), then the attributes
Inst(as) == [t |-> "schema", n |-> 0, items |-> <<Item(FieldsKey, DMap(<<>>))>> \o as]

SeqsUpTo(S, n) == UNION {[1..k -> S] : k \in 0..n}

Leaf == Inst(Keyed(<<DScalar(0)>>))
Mid == Inst(Keyed(<<Leaf>>))
Elems == {DScalar(1), Leaf}
AttrValues ==
    {DScalar(0), DScalar(1), Leaf, Mid}
        \cup {DList(e) : e \in SeqsUpTo(Elems, MaxListLen)}
        \cup {DMap(Keyed(e)) : e \in SeqsUpTo(Elems, MaxListLen)}
Instances == {Inst(Keyed(vs)) : vs \in SeqsUpTo(AttrValues, MaxAttrs)}

IsSchema(v) == v.t = "schema"
\* all(isinstance(val, BaseSchema) for val in ...)
AllSchema(items) == \A i \in 1..Len(items) : IsSchema(items[i].v)

RECURSIVE ToDict(_), DictOf(_), ConvItems(_, _)

\* a conversion that handles nested instances and mappings but not lists
ToDictNoLists(value) ==
    IF IsSchema(value) THEN DictOf(value)
    ELSE IF value.t = "dict" /\ AllSchema(value.items)
    THEN [value EXCEPT !.items =
            [i \in 1..Len(value.items) |->
                Item(value.items[i].k, DictOf(value.items[i].v))]]
    ELSE value

\* BaseSchema._to_dict
ToDict(value) ==
    IF IsSchema(value) THEN DictOf(value)
    ELSE IF value.t \in {"list", "dict"} /\ AllSchema(value.items)
    THEN [value EXCEPT !.items =
            [i \in 1..Len(value.items) |->
                Item(value.items[i].k, DictOf(value.items[i].v))]]
    ELSE value

\* the comprehension of dict(): the non-dunder attributes, converted
ConvItems(items, i) ==
    IF i > Len(items) THEN <<>>
    ELSE (IF ~IsDunder(items[i].k)
          THEN <<Item(items[i].k, ToDict(items[i].v))>>
          ELSE <<>>) \o ConvItems(items, i + 1)

\* BaseSchema.dict
DictOf(inst) == DMap(ConvItems(inst.items, 1))

RECURSIVE DTruthy(_), BoolOf(_)

\* bool(value); for a schema instance, its __bool__
DTruthy(v) ==
    CASE v.t \in {"int", "bool"} -> v.n # 0
      [] v.t \in {"list", "dict"} -> Len(v.items) > 0
      [] v.t = "schema" -> BoolOf(v)
      [] OTHER -> FALSE

\* BaseSchema.__bool__
BoolOf(inst) ==
    LET values == DictOf(inst).items
    IN \A i \in 1..Len(values) : DTruthy(values[i].v)

InitDict ==
    /\ EngineIdle
    /\ HooksIdle
    /\ TypeIdle
    /\ CopyIdle
    /\ dInst \in Instances
    /\ dOut = [op |-> "none", val |-> NoValue]

CallDict ==
    /\ dOut.op = "none"
    /\ dOut' = [op |-> "dict", val |-> DictOf(dInst)]
    /\ UNCHANGED <<dInst, engineVars, hookVars, typeVars, copyVars>>

CallBool ==
    /\ dOut.op = "none"
    /\ dOut' = [op |-> "bool", val |-> DBool(BoolOf(dInst))]
    /\ UNCHANGED <<dInst, engineVars, hookVars, typeVars, copyVars>>

NextDict == CallDict \/ CallBool
SpecDict == InitDict /\ [][NextDict]_vars

RECURSIVE Plain(_), PlainItems(_, _), HasSchema(_), Uniform(_)

\* the mapping the claim describes: one key per non-dunder attribute, each
\* schema instance held directly, as a list element or as a mapping value
\* replaced by its own such mapping, every other value unchanged
PlainItems(items, i) ==
    IF i > Len(items) THEN <<>>
    ELSE LET k == items[i].k
             v == items[i].v
             w == IF IsSchema(v) THEN Plain(v)
                  ELSE IF v.t \in {"list", "dict"}
                  THEN [v EXCEPT !.items =
                          [j \in 1..Len(v.items) |->
                              Item(v.items[j].k,
                                   IF IsSchema(v.items[j].v)
                                   THEN Plain(v.items[j].v)
                                   ELSE v.items[j].v)]]
                  ELSE v
         IN (IF IsDunder(k) THEN <<>> ELSE <<Item(k, w)>>) \o PlainItems(items, i + 1)

Plain(inst) == [t |-> "dict", n |-> 0, items |-> PlainItems(inst.items, 1)]

\* a schema instance occurs in the value, at any depth
HasSchema(v) == IsSchema(v) \/ \E i \in 1..Len(v.items) : HasSchema(v.items[i].v)

\* every list and mapping in the value, at any depth, holds only schema
\* instances or no schema instance at all
Uniform(v) ==
    /\ v.t \in {"list", "dict"} =>
          \/ \A i \in 1..Len(v.items) : IsSchema(v.items[i].v)
          \/ \A i \in 1..Len(v.items) : ~IsSchema(v.items[i].v)
    /\ \A i \in 1..Len(v.items) : Uniform(v.items[i].v)

\* C6 as stated: for an instance holding scalars, schema instances, and lists
\* and mappings of scalars or schema instances, dict() has one key per
\* non-dunder attribute, replaces every schema instance by its converted
\* mapping, and so holds no schema object at any depth.
C6_NoSchemaAtAnyDepth ==
    dOut.op = "dict" => dOut.val = Plain(dInst) /\ ~HasSchema(dOut.val)

\* C6 amended: the same, for instances in which every list and mapping, at
\* every depth, holds only schema instances or no schema instance.
C6_NoSchemaWhenUniform ==
    (dOut.op = "dict" /\ Uniform(dInst)) =>
        dOut.val = Plain(dInst) /\ ~HasSchema(dOut.val)

C6_Witness ==
    /\ dOut.op = "dict"
    /\ Uniform(dInst)
    /\ Len(dInst.items) = 3
    /\ dInst.items[2].v = DList(<<Leaf, Leaf>>)
    /\ dInst.items[3].v = DMap(Keyed(<<Leaf>>))

\* C7: bool(instance) is False exactly when every resolved field value is
\* falsy; an instance with at least one truthy field value is truthy.
C7_EmptyIffAllFalsy ==
    dOut.op = "bool" =>
        ((dOut.val = DBool(FALSE))
            <=> \A i \in 1..Len(dInst.items) :
                    ~IsDunder(dInst.items[i].k) => ~DTruthy(dInst.items[i].v))

(***************************************************************************)
(* BaseField._get_type.  An annotation is [kind, name, args]:              *)
(*   class         int, list, dict, NoneType                               *)
(*   GenericAlias  list[X], dict[str, X]         (types.GenericAlias)      *)
(*   UnionType     X | None                      (types.UnionType)         *)
(*   typing        List[X], Optional[X]          (typing's own aliases)    *)
(*   forward       a string that names nothing get_type_hints can find     *)
(*   absent        no annotation for the attribute                         *)
(***************************************************************************)
TClass(name) == [kind |-> "class", name |-> name, args |-> <<>>]
TInt == TClass("int")
TNoneType == TClass("NoneType")
TForward == [kind |-> "forward", name |-> "Foo", args |-> <<>>]

BuiltinList(x) == [kind |-> "GenericAlias", name |-> "list", args |-> <<x>>]
BuiltinDict(x) == [kind |-> "GenericAlias", name |-> "dict", args |-> <<TClass("str"), x>>]
TypingList(x) == [kind |-> "typing", name |-> "List", args |-> <<x>>]
TypingOptional(x) == [kind |-> "typing", name |-> "Optional", args |-> <<x, TNoneType>>]
PipeNone(x) == [kind |-> "UnionType", name |-> "", args |-> <<x, TNoneType>>]

IsUnion(x) == x.kind = "UnionType" \/ (x.kind = "typing" /\ x.name = "Optional")

BareTypes == {TInt, TClass("list"), TClass("dict")}

RECURSIVE Annotations(_)
\* the annotations nested at most d deep; a union of a union is the flat union,
\* and X | None is typing's Optional[X] when X is one of typing's aliases or
\* when it is written as an argument of one
Annotations(d) ==
    IF d = 0 THEN BareTypes
    ELSE LET inner == Annotations(d - 1)
         IN inner
            \cup {BuiltinList(x) : x \in inner}
            \cup {BuiltinDict(x) : x \in inner}
            \cup {TypingList(x) : x \in {y \in inner : y.kind # "UnionType"}}
            \cup {TypingOptional(x) : x \in {y \in inner : ~IsUnion(y)}}
            \cup {PipeNone(x) : x \in {y \in inner : y.kind \in {"class", "GenericAlias"}}}

\* type_.__name__ exists: types.UnionType has no __name__
HasName(x) == x.kind # "UnionType"

\* typing.get_args
GetArgs(x) == x.args

\* issubclass(type_, (dict, list)): "True", "False" or "TypeError"
IsSubclassOfDictList(x) ==
    CASE x.kind = "class" -> IF x.name \in {"dict", "list"} THEN "True" ELSE "False"
      [] x.kind = "GenericAlias" -> "False"
      [] OTHER -> "TypeError"

Returned(x) == [op |-> "_get_type", err |-> "none", ty |-> x, warned |-> FALSE]
ReturnedNone(w) == [op |-> "_get_type", err |-> "none", ty |-> NoType, warned |-> w]
Raised(e) == [op |-> "_get_type", err |-> e, ty |-> NoType, warned |-> FALSE]

\* lines 105-117: the test for dict and list, and its except branch
IgnoreContainers(x) ==
    LET sub == IsSubclassOfDictList(x)
    IN IF sub = "True" THEN ReturnedNone(FALSE)
       ELSE IF sub = "False" THEN Returned(x)
       ELSE IF HasName(x) THEN ReturnedNone(TRUE)
       ELSE Raised("AttributeError")

\* BaseField._get_type
GetType(ann) ==
    IF ann.kind = "forward" THEN Raised("NameError")
    ELSE IF ann.kind = "absent" THEN ReturnedNone(FALSE)
    ELSE IF ~HasName(ann) THEN Raised("AttributeError")
    ELSE IF ann.kind \in {"GenericAlias", "UnionType"} \/ GetArgs(ann) # <<>>
    THEN IF HasName(GetArgs(ann)[1])
         THEN IgnoreContainers(GetArgs(ann)[1])
         ELSE Raised("AttributeError")
    ELSE IgnoreContainers(ann)

InitType ==
    /\ EngineIdle
    /\ HooksIdle
    /\ DictIdle
    /\ CopyIdle
    /\ tAnn \in Annotations(MaxNest) \cup {NoType, TForward}
    /\ tOut = NoResult

CallGetType ==
    /\ tOut.op = "none"
    /\ tOut' = GetType(tAnn)
    /\ UNCHANGED <<tAnn, engineVars, hookVars, dictVars, copyVars>>

NextType == CallGetType
SpecType == InitType /\ [][NextType]_vars

\* a bare or parametrized list or dict
IsContainer(x) == x.name \in {"list", "dict", "List"}

\* C9: _get_type never raises; it returns the annotation when it is a bare
\* scalar type, the first inner type argument after unwrapping one level of a
\* parametrized container or optional/union, and None when the annotation is
\* absent, when the unwrapped type is itself a list/dict container, or (with a
\* warning) when introspection of the type fails.
C9_TargetType ==
    tOut.op = "_get_type" =>
        LET unwrapped == IF tAnn.args = <<>> THEN tAnn ELSE tAnn.args[1]
        IN /\ tOut.err = "none"
           /\ tOut.warned => tOut.ty = NoType
           /\ IF tAnn.kind \in {"absent", "forward"} THEN tOut.ty = NoType
              ELSE IF IsContainer(unwrapped) THEN tOut.ty = NoType
              ELSE IF unwrapped.kind = "class" THEN tOut.ty = unwrapped
              ELSE tOut.ty = NoType /\ tOut.warned

(***************************************************************************)
(* The snapshot of the fields (line 160) with the objects made explicit.   *)
(* heap[a] is the content of the mutable object at address a (the length   *)
(* of a default list, the counter of a hook).  A field object holds the    *)
(* addresses of its default and of its hook.  The class owns the first     *)
(* field objects; every construction takes its own snapshot of them.       *)
(***************************************************************************)
Constructions == {1, 2}

\* BaseField.__deepcopy__: copy.copy(self), a new object with the same attributes
FieldDeepCopy(fobj) == fobj

\* copy.deepcopy of the field mapping: a new mapping of the copied fields
DeepCopyMapping(fobjs, ids) == [i \in 1..Len(ids) |-> FieldDeepCopy(fobjs[ids[i]])]

ClassFieldIds(n) == [i \in 1..n |-> i]
\* the number of fields of the class: the field objects the class owns are
\* those made before any snapshot
NumClassFields == Len(fieldObjs) - Len(copies[1]) - Len(copies[2])

InitCopy ==
    /\ EngineIdle
    /\ HooksIdle
    /\ DictIdle
    /\ TypeIdle
    /\ \E n \in 1..MaxCopyFields :
          /\ heap = [a \in 1..(2 * n) |-> 0]
          /\ fieldObjs = [i \in 1..n |-> [default |-> 2 * i - 1, hook |-> 2 * i]]
    /\ copies = [c \in Constructions |-> <<>>]
    /\ touched = {}

\* line 160 in construction c
Snapshot(c) ==
    /\ copies[c] = <<>>
    /\ LET n == NumClassFields
           new == DeepCopyMapping(fieldObjs, ClassFieldIds(n))
       IN /\ fieldObjs' = fieldObjs \o new
          /\ copies' = [copies EXCEPT ![c] = [i \in 1..n |-> Len(fieldObjs) + i]]
    /\ UNCHANGED <<heap, touched, engineVars, hookVars, dictVars, typeVars>>

\* a hook of construction c changes, in place, the object an attribute of its
\* i-th field copy refers to (a factory appending to the default, a validator
\* counting its calls)
HookMutates(c, i, attr) ==
    /\ i \in 1..Len(copies[c])
    /\ LET a == fieldObjs[copies[c][i]][attr]
       IN /\ heap[a] < MaxMutations
          /\ heap' = [heap EXCEPT ![a] = @ + 1]
    /\ touched' = touched \cup {c}
    /\ UNCHANGED <<fieldObjs, copies, engineVars, hookVars, dictVars, typeVars>>

\* a hook of construction c gives an attribute of its i-th field copy a new object
HookRebinds(c, i, attr) ==
    /\ i \in 1..Len(copies[c])
    /\ Len(heap) < 2 * NumClassFields + MaxRebinds
    /\ heap' = Append(heap, 1)
    /\ fieldObjs' = [fieldObjs EXCEPT ![copies[c][i]][attr] = Len(heap) + 1]
    /\ touched' = touched \cup {c}
    /\ UNCHANGED <<copies, engineVars, hookVars, dictVars, typeVars>>

NextCopy ==
    \E c \in Constructions :
        \/ Snapshot(c)
        \/ \E i \in 1..MaxCopyFields : \E attr \in {"default", "hook"} :
              HookMutates(c, i, attr) \/ HookRebinds(c, i, attr)

SpecCopy == InitCopy /\ [][NextCopy]_vars

\* what can be observed through a field object
View(fid) == [default |-> heap[fieldObjs[fid].default], hook |-> heap[fieldObjs[fid].hook]]
Untouched == [default |-> 0, hook |-> 0]

\* C5: a mutation made during one construction to the state reachable from its
\* field copy is observable neither from the class-level field nor from the
\* field copies of another construction.
C5_CopiesShareNothing ==
    /\ \A i \in 1..NumClassFields : View(i) = Untouched
    /\ \A c \in Constructions :
          c \notin touched => \A i \in 1..Len(copies[c]) : View(copies[c][i]) = Untouched

====
